---- MODULE Spec2Model ----
(***************************************************************************)
(* A model of the CHIP-8 interpreter core chip8_core::Emu: the machine     *)
(* state, the host operations new, reset, load, keypress, tick and         *)
(* tick_timers, and the instruction semantics of Emu::execute.             *)
(*                                                                         *)
(* A Rust panic (index out of bounds, arithmetic overflow in a build with  *)
(* overflow checks, unimplemented!) unwinds out of the call: the model     *)
(* records it in the field `panic` and the machine takes no further step.  *)
(***************************************************************************)
EXTENDS Integers, Sequences, FiniteSets, TLC

----
\* Program constants (chip8_core/src/lib.rs)

SCREEN_HEIGHT == 32
SCREEN_WIDTH == 64
RAM_SIZE == 4096
NUM_REGS == 16
STACK_SIZE == 16
NUM_KEYS == 16
START_ADDR == 512
FONTSET_SIZE == 80

FONTSET ==
    << 240, 144, 144, 144, 240,
        32,  96,  32,  32, 112,
       240,  16, 240, 128, 240,
       240,  16, 240,  16, 240,
       144, 144, 240,  16,  16,
       240, 128, 240,  16, 240,
       240, 128, 240, 144, 240,
       240,  16,  32,  64,  64,
       240, 144, 240, 144, 240,
       240, 144, 240,  16, 240,
       240, 144, 240, 144, 144,
       224, 144, 224, 144, 224,
       240, 128, 128, 128, 240,
       224, 144, 144, 144, 224,
       240, 128, 240, 128, 240,
       240, 128, 240, 128, 128 >>

\* Widths of the integer types u8 and u16
U8 == 2 ^ 8
U16 == 2 ^ 16

----
\* Bit operations on bytes

BitAt(v, i) == (v \div (2 ^ i)) % 2

BitAnd(a, b) ==
    LET f[i \in 0..8] ==
            IF i = 8 THEN 0 ELSE BitAt(a, i) * BitAt(b, i) * (2 ^ i) + f[i + 1]
    IN  f[0]

BitOr(a, b) ==
    LET f[i \in 0..8] ==
            IF i = 8 THEN 0
            ELSE (IF BitAt(a, i) + BitAt(b, i) > 0 THEN 2 ^ i ELSE 0) + f[i + 1]
    IN  f[0]

BitXor(a, b) ==
    LET f[i \in 0..8] ==
            IF i = 8 THEN 0
            ELSE ((BitAt(a, i) + BitAt(b, i)) % 2) * (2 ^ i) + f[i + 1]
    IN  f[0]

----
\* Panic messages of the Rust runtime

NoPanic == "none"
IndexOutOfBounds == "index out of bounds"
SubOverflow == "attempt to subtract with overflow"
AddOverflow == "attempt to add with overflow"
SliceOutOfRange == "range end index out of range"
NotImplemented == "not implemented"

Panicked(m) == m.panic # NoPanic

Panic(m, msg) == [m EXCEPT !.panic = msg]

----
\* The machine: struct Emu.  The bool array `screen` is held as the set of
\* the indices whose entry is true.  The byte array `ram` is held as the
\* function from the addresses of its nonzero bytes to these bytes: every
\* address of 0..RAM_SIZE-1 outside the domain holds 0.

\* self.ram[a], for a below RAM_SIZE
Byte(ram, a) == IF a \in DOMAIN ram THEN ram[a] ELSE 0

\* self.ram[a] = b, for a below RAM_SIZE
WriteByte(ram, a, b) ==
    [x \in (IF b = 0 THEN DOMAIN ram \ {a} ELSE DOMAIN ram \cup {a}) |->
        IF x = a THEN b ELSE ram[x]]

\* [0; RAM_SIZE] with ram[..FONTSET_SIZE].copy_from_slice(&FONTSET)
FontRam ==
    [a \in {x \in 0..(FONTSET_SIZE - 1) : FONTSET[x + 1] # 0} |-> FONTSET[a + 1]]

NewEmu ==
    [ pc     |-> START_ADDR,
      ram    |-> FontRam,
      screen |-> {},
      v_reg  |-> [r \in 0..(NUM_REGS - 1) |-> 0],
      i_reg  |-> 0,
      sp     |-> 0,
      stack  |-> [s \in 0..(STACK_SIZE - 1) |-> 0],
      keys   |-> [k \in 0..(NUM_KEYS - 1) |-> FALSE],
      dt     |-> 0,
      st     |-> 0,
      panic  |-> NoPanic ]

\* a reset that zeroes the memory and does not copy the font set (the
\* reset of the draft src/src/lib.rs)
ResetEmuNoFont(m) ==
    [ m EXCEPT !.pc = START_ADDR,
               !.ram = [a \in {} |-> 0],
               !.screen = {},
               !.v_reg = [r \in 0..(NUM_REGS - 1) |-> 0],
               !.i_reg = 0,
               !.sp = 0,
               !.stack = [s \in 0..(STACK_SIZE - 1) |-> 0],
               !.keys = [k \in 0..(NUM_KEYS - 1) |-> FALSE],
               !.dt = 0,
               !.st = 0 ]

\* Emu::reset
ResetEmu(m) ==
    [ m EXCEPT !.pc = START_ADDR,
               !.ram = FontRam,
               !.screen = {},
               !.v_reg = [r \in 0..(NUM_REGS - 1) |-> 0],
               !.i_reg = 0,
               !.sp = 0,
               !.stack = [s \in 0..(STACK_SIZE - 1) |-> 0],
               !.keys = [k \in 0..(NUM_KEYS - 1) |-> FALSE],
               !.dt = 0,
               !.st = 0 ]

\* Emu::push.  The index is checked before the store; sp += 1 cannot
\* overflow below STACK_SIZE.
push(m, val) ==
    IF m.sp >= STACK_SIZE
    THEN Panic(m, IndexOutOfBounds)
    ELSE [m EXCEPT !.stack[m.sp] = val, !.sp = m.sp + 1]

\* a pop that hands out the oldest entry of the stack
popOldest(m, oc) ==
    IF m.sp = 0
    THEN IF oc
         THEN [m |-> Panic(m, SubOverflow), val |-> 0]
         ELSE [m |-> Panic([m EXCEPT !.sp = U16 - 1], IndexOutOfBounds), val |-> 0]
    ELSE [m |-> [m EXCEPT !.sp = m.sp - 1], val |-> m.stack[0]]

\* Emu::pop: the new machine and the value popped.  sp -= 1 at sp = 0
\* panics in a build with overflow checks and wraps to 65535 in one
\* without, where the index into the stack then panics.
pop(m, oc) ==
    IF m.sp = 0
    THEN IF oc
         THEN [m |-> Panic(m, SubOverflow), val |-> 0]
         ELSE [m |-> Panic([m EXCEPT !.sp = U16 - 1], IndexOutOfBounds), val |-> 0]
    ELSE IF m.sp - 1 >= STACK_SIZE
         THEN [m |-> Panic([m EXCEPT !.sp = m.sp - 1], IndexOutOfBounds), val |-> 0]
         ELSE [m |-> [m EXCEPT !.sp = m.sp - 1], val |-> m.stack[m.sp - 1]]

\* Emu::keypress
keypress(m, idx, pressed) ==
    IF idx >= NUM_KEYS
    THEN Panic(m, IndexOutOfBounds)
    ELSE [m EXCEPT !.keys[idx] = pressed]

\* a load that also rewinds the program counter
loadRewinding(m, data) ==
    LET start == START_ADDR
        end   == START_ADDR + Len(data)
    IN  IF end > RAM_SIZE
        THEN Panic(m, SliceOutOfRange)
        ELSE [m EXCEPT !.pc = START_ADDR,
                       !.ram =
                 [a \in (DOMAIN m.ram \ (start..(end - 1)))
                          \cup {x \in start..(end - 1) : data[x - start + 1] # 0} |->
                     IF a >= start /\ a < end
                     THEN data[a - start + 1]
                     ELSE m.ram[a]]]

\* Emu::load: the slice ram[start..end] is taken, and checked, before a
\* byte is copied.
load(m, data) ==
    LET start == START_ADDR
        end   == START_ADDR + Len(data)
    IN  IF end > RAM_SIZE
        THEN Panic(m, SliceOutOfRange)
        ELSE [m EXCEPT !.ram =
                 [a \in (DOMAIN m.ram \ (start..(end - 1)))
                          \cup {x \in start..(end - 1) : data[x - start + 1] # 0} |->
                     IF a >= start /\ a < end
                     THEN data[a - start + 1]
                     ELSE m.ram[a]]]

\* timers decremented without the test against zero
tick_timersWrapping(m) ==
    [m EXCEPT !.dt = (m.dt - 1) % U8, !.st = (m.st - 1) % U8]

\* Emu::tick_timers
tick_timers(m) ==
    LET m1 == IF m.dt > 0 THEN [m EXCEPT !.dt = m.dt - 1] ELSE m
    IN  IF m1.st > 0 THEN [m1 EXCEPT !.st = m1.st - 1] ELSE m1

\* a fetch that takes the byte at pc as the low byte of the opcode
fetchLittleEndian(m) ==
    IF m.pc >= RAM_SIZE \/ m.pc + 1 >= RAM_SIZE
    THEN [m |-> Panic(m, IndexOutOfBounds), op |-> 0]
    ELSE [m  |-> [m EXCEPT !.pc = m.pc + 2],
          op |-> Byte(m.ram, m.pc + 1) * U8 + Byte(m.ram, m.pc)]

\* Emu::fetch: the machine after the fetch and the opcode fetched.
fetch(m) ==
    IF m.pc >= RAM_SIZE \/ m.pc + 1 >= RAM_SIZE
    THEN [m |-> Panic(m, IndexOutOfBounds), op |-> 0]
    ELSE [m  |-> [m EXCEPT !.pc = m.pc + 2],
          op |-> Byte(m.ram, m.pc) * U8 + Byte(m.ram, m.pc + 1)]

----
\* Emu::execute, one operator per arm of the match.  `m` is the machine
\* after the fetch (pc already past the instruction).

Digit1(op) == (op \div 4096) % 16
Digit2(op) == (op \div 256) % 16
Digit3(op) == (op \div 16) % 16
Digit4(op) == op % 16
NN(op) == op % 256
NNN(op) == op % 4096

\* self.pc += 2 of the skip instructions
Skip(m, cond) == IF cond THEN [m EXCEPT !.pc = m.pc + 2] ELSE m

\* 00E0
ExecCls(m) == [m EXCEPT !.screen = {}]

\* 00EE
ExecRet(m, oc) ==
    LET r == pop(m, oc)
    IN  IF Panicked(r.m) THEN r.m ELSE [r.m EXCEPT !.pc = r.val]

\* 1NNN
ExecJmp(m, nnn) == [m EXCEPT !.pc = nnn]
\* 2NNN pushing the address of the call itself rather than of the
\* instruction after it
ExecCallPushesSelf(m, nnn) ==
    LET r == push(m, m.pc - 2)
    IN  IF Panicked(r) THEN r ELSE [r EXCEPT !.pc = nnn]

\* 2NNN
ExecCall(m, nnn) ==
    LET r == push(m, m.pc)
    IN  IF Panicked(r) THEN r ELSE [r EXCEPT !.pc = nnn]

\* 3XNN
ExecSkipEqNN(m, x, nn) == Skip(m, m.v_reg[x] = nn)

\* 4XNN
ExecSkipNeNN(m, x, nn) == Skip(m, m.v_reg[x] # nn)

\* 5XY_ (the arm matches every fourth digit)
ExecSkipEq(m, x, y) == Skip(m, m.v_reg[x] = m.v_reg[y])

\* 6XNN
ExecSetNN(m, x, nn) == [m EXCEPT !.v_reg[x] = nn]

\* 7XNN storing the carry in the flag register, as 8XY4 does
ExecAddNNCarry(m, x, nn) ==
    LET m1 == [m EXCEPT !.v_reg[x] = (m.v_reg[x] + nn) % U8]
    IN  [m1 EXCEPT !.v_reg[15] = IF m.v_reg[x] + nn >= U8 THEN 1 ELSE 0]

\* 7XNN
ExecAddNN(m, x, nn) == [m EXCEPT !.v_reg[x] = (m.v_reg[x] + nn) % U8]

\* 8XY0
ExecMov(m, x, y) == [m EXCEPT !.v_reg[x] = m.v_reg[y]]

\* 8XY1
ExecOr(m, x, y) == [m EXCEPT !.v_reg[x] = BitOr(m.v_reg[x], m.v_reg[y])]

\* 8XY2
ExecAnd(m, x, y) == [m EXCEPT !.v_reg[x] = BitAnd(m.v_reg[x], m.v_reg[y])]

\* 8XY3
ExecXor(m, x, y) == [m EXCEPT !.v_reg[x] = BitXor(m.v_reg[x], m.v_reg[y])]

\* 8XY4 with the two stores in the other order
ExecAddFlagFirst(m, x, y) ==
    LET sum    == m.v_reg[x] + m.v_reg[y]
        new_vx == sum % U8
        new_vf == IF sum >= U8 THEN 1 ELSE 0
        m1     == [m EXCEPT !.v_reg[15] = new_vf]
    IN  [m1 EXCEPT !.v_reg[x] = new_vx]

\* 8XY4: v_reg[x] is written first, v_reg[0xF] second
ExecAdd(m, x, y) ==
    LET sum    == m.v_reg[x] + m.v_reg[y]
        new_vx == sum % U8
        new_vf == IF sum >= U8 THEN 1 ELSE 0
        m1     == [m EXCEPT !.v_reg[x] = new_vx]
    IN  [m1 EXCEPT !.v_reg[15] = new_vf]

\* 8XY5: v_reg[x] is written first, v_reg[0xF] second
ExecSub(m, x, y) ==
    LET new_vx == (m.v_reg[x] - m.v_reg[y]) % U8
        new_vf == IF m.v_reg[x] < m.v_reg[y] THEN 0 ELSE 1
        m1     == [m EXCEPT !.v_reg[x] = new_vx]
    IN  [m1 EXCEPT !.v_reg[15] = new_vf]

\* 8XY6 with the flag stored before the shift
ExecShrFlagFirst(m, x) ==
    LET lsb == m.v_reg[x] % 2
        m1  == [m EXCEPT !.v_reg[15] = lsb]
    IN  [m1 EXCEPT !.v_reg[x] = m1.v_reg[x] \div 2]

\* 8XY6: v_reg[x] is written first, v_reg[0xF] second
ExecShr(m, x) ==
    LET lsb == m.v_reg[x] % 2
        m1  == [m EXCEPT !.v_reg[x] = m.v_reg[x] \div 2]
    IN  [m1 EXCEPT !.v_reg[15] = lsb]

\* 8XY7: v_reg[0xF] is written first, v_reg[x] second
ExecSubN(m, x, y) ==
    LET new_vx == (m.v_reg[y] - m.v_reg[x]) % U8
        new_vf == IF m.v_reg[y] < m.v_reg[x] THEN 0 ELSE 1
        m1     == [m EXCEPT !.v_reg[15] = new_vf]
    IN  [m1 EXCEPT !.v_reg[x] = new_vx]

\* 8XYE: v_reg[0xF] is written first, then v_reg[x] <<= 1 reads the
\* register again
ExecShl(m, x) ==
    LET msb == (m.v_reg[x] \div 128) % 2
        m1  == [m EXCEPT !.v_reg[15] = msb]
    IN  [m1 EXCEPT !.v_reg[x] = (m1.v_reg[x] * 2) % U8]

\* 9XY0
ExecSkipNe(m, x, y) == Skip(m, m.v_reg[x] # m.v_reg[y])

\* ANNN
ExecSetI(m, nnn) == [m EXCEPT !.i_reg = nnn]

\* BNNN
ExecJmpV0(m, nnn) == [m EXCEPT !.pc = m.v_reg[0] + nnn]

\* CXNN: rng is the byte the random generator returns
ExecRand(m, x, nn, rng) == [m EXCEPT !.v_reg[x] = BitAnd(rng, nn)]

----
\* DXYN.  The loops run in the order of the code; `d` carries the screen,
\* the flag `flipped` and a panic raised by the read of the sprite row.
\* the column not wrapped at the right edge of the screen
PixelIndexNoWrapX(x_coord, y_coord, x_line, y_line) ==
    LET x == x_coord + x_line
        y == (y_coord + y_line) % SCREEN_HEIGHT
    IN  x + SCREEN_WIDTH * y

\* x, y and idx of one sprite pixel
PixelIndex(x_coord, y_coord, x_line, y_line) ==
    LET x == (x_coord + x_line) % SCREEN_WIDTH
        y == (y_coord + y_line) % SCREEN_HEIGHT
    IN  x + SCREEN_WIDTH * y
\* the pixel set rather than toggled: self.screen[idx] |= true
DrawPixelSet(d, idx) ==
    [d EXCEPT !.flipped = d.flipped \/ (idx \in d.screen),
              !.screen  = d.screen \cup {idx}]

\* the flag taken from the pixel after the toggle rather than before it
DrawPixelFlagAfter(d, idx) ==
    [d EXCEPT !.flipped = d.flipped \/ (idx \notin d.screen),
              !.screen  = IF idx \in d.screen
                          THEN d.screen \ {idx}
                          ELSE d.screen \cup {idx}]

\* flipped |= self.screen[idx]; self.screen[idx] ^= true
DrawPixel(d, idx) ==
    [d EXCEPT !.flipped = d.flipped \/ (idx \in d.screen),
              !.screen  = IF idx \in d.screen
                          THEN d.screen \ {idx}
                          ELSE d.screen \cup {idx}]

\* whether bit x_line of the row, counted from the most significant, is set
SpriteBit(pixels, x_line) == BitAt(pixels, 7 - x_line) # 0

RECURSIVE DrawCols(_, _, _, _, _, _)
DrawCols(d, pixels, x_coord, y_coord, y_line, x_line) ==
    IF x_line >= 8 \/ d.panic # NoPanic THEN d
    ELSE DrawCols(IF SpriteBit(pixels, x_line)
                  THEN DrawPixel(d, PixelIndex(x_coord, y_coord, x_line, y_line))
                  ELSE d,
                  pixels, x_coord, y_coord, y_line, x_line + 1)

\* let addr = self.i_reg + y_line as u16: the sum and whether it overflowed
SpriteAddr(i_reg, y_line) ==
    [addr |-> (i_reg + y_line) % U16, overflow |-> i_reg + y_line >= U16]

RECURSIVE DrawRows(_, _, _, _, _, _, _)
DrawRows(d, m, x_coord, y_coord, num_rows, y_line, oc) ==
    IF y_line >= num_rows \/ d.panic # NoPanic THEN d
    ELSE LET a == SpriteAddr(m.i_reg, y_line)
         IN  IF a.overflow /\ oc THEN [d EXCEPT !.panic = AddOverflow]
             ELSE IF a.addr >= RAM_SIZE THEN [d EXCEPT !.panic = IndexOutOfBounds]
             ELSE DrawRows(DrawCols(d, Byte(m.ram, a.addr), x_coord, y_coord, y_line, 0),
                           m, x_coord, y_coord, num_rows, y_line + 1, oc)

ExecDraw(m, x, y, n, oc) ==
    LET d == DrawRows([screen |-> m.screen, flipped |-> FALSE, panic |-> NoPanic],
                      m, m.v_reg[x], m.v_reg[y], n, 0, oc)
    IN  IF d.panic # NoPanic
        THEN [m EXCEPT !.screen = d.screen, !.panic = d.panic]
        ELSE [m EXCEPT !.screen = d.screen,
                       !.v_reg[15] = IF d.flipped THEN 1 ELSE 0]

----
\* EX9E
ExecSkipKey(m, x) ==
    LET vx == m.v_reg[x]
    IN  IF vx >= NUM_KEYS THEN Panic(m, IndexOutOfBounds) ELSE Skip(m, m.keys[vx])

\* EXA1
ExecSkipNoKey(m, x) ==
    LET vx == m.v_reg[x]
    IN  IF vx >= NUM_KEYS THEN Panic(m, IndexOutOfBounds) ELSE Skip(m, ~m.keys[vx])

\* FX07
ExecGetDelay(m, x) == [m EXCEPT !.v_reg[x] = m.dt]

\* for i in 0..self.keys.len() { if self.keys[i] { ...; break } }: the i
\* at which the loop breaks, NUM_KEYS when it runs to its end
RECURSIVE ScanKeys(_, _)
ScanKeys(keys, i) ==
    IF i >= NUM_KEYS THEN NUM_KEYS
    ELSE IF keys[i] THEN i
    ELSE ScanKeys(keys, i + 1)
\* FX0A without the redo of the opcode: the program counter stays past the
\* instruction when no key is pressed
ExecWaitKeyNoRedo(m, x) ==
    LET i == ScanKeys(m.keys, 0)
    IN  IF i < NUM_KEYS THEN [m EXCEPT !.v_reg[x] = i] ELSE m

\* FX0A
ExecWaitKey(m, x) ==
    LET i == ScanKeys(m.keys, 0)
    IN  IF i < NUM_KEYS
        THEN [m EXCEPT !.v_reg[x] = i]
        ELSE [m EXCEPT !.pc = m.pc - 2]

\* FX15
ExecSetDelay(m, x) == [m EXCEPT !.dt = m.v_reg[x]]

\* FX18
ExecSetSound(m, x) == [m EXCEPT !.st = m.v_reg[x]]

\* FX1E
ExecAddI(m, x) == [m EXCEPT !.i_reg = (m.i_reg + m.v_reg[x]) % U16]

\* FX29 for glyphs of four rows
ExecFontFourRows(m, x) == [m EXCEPT !.i_reg = m.v_reg[x] * 4]

\* FX29
ExecFont(m, x) == [m EXCEPT !.i_reg = m.v_reg[x] * 5]

\* the tens of FX33 without the remainder
TensUnreduced(vx) == vx \div 10

\* the three digits of FX33; the f32 arithmetic of the code is exact on
\* 0..255
Hundreds(vx) == vx \div 100
Tens(vx) == (vx \div 10) % 10
Ones(vx) == vx % 10

\* self.ram[addr] = byte, with the bounds check of the index
StoreByte(m, addr, byte) ==
    IF Panicked(m) THEN m
    ELSE IF addr >= RAM_SIZE THEN Panic(m, IndexOutOfBounds)
    ELSE [m EXCEPT !.ram = WriteByte(m.ram, addr, byte)]

\* FX33
ExecBcd(m, x) ==
    LET vx == m.v_reg[x]
        m1 == StoreByte(m, m.i_reg, Hundreds(vx))
        m2 == StoreByte(m1, m.i_reg + 1, Tens(vx))
    IN  StoreByte(m2, m.i_reg + 2, Ones(vx))

\* FX55: for idx in 0..=x
RECURSIVE StoreRegs(_, _, _)
StoreRegs(m, x, idx) ==
    IF idx > x \/ Panicked(m) THEN m
    ELSE StoreRegs(StoreByte(m, m.i_reg + idx, m.v_reg[idx]), x, idx + 1)

\* FX55 leaving the index register past the registers stored
ExecStoreAdvancing(m, x) ==
    LET m1 == StoreRegs(m, x, 0)
    IN  IF Panicked(m1) THEN m1 ELSE [m1 EXCEPT !.i_reg = m.i_reg + x + 1]

ExecStore(m, x) == StoreRegs(m, x, 0)

\* self.v_reg[idx] = self.ram[addr], with the bounds check of the index
LoadByte(m, idx, addr) ==
    IF addr >= RAM_SIZE THEN Panic(m, IndexOutOfBounds)
    ELSE [m EXCEPT !.v_reg[idx] = Byte(m.ram, addr)]

\* FX65: for idx in 0..=x
RECURSIVE LoadRegs(_, _, _)
LoadRegs(m, x, idx) ==
    IF idx > x \/ Panicked(m) THEN m
    ELSE LoadRegs(LoadByte(m, idx, m.i_reg + idx), x, idx + 1)

ExecLoad(m, x) == LoadRegs(m, x, 0)

\* the arm (_, _, _, _): unimplemented!
ExecUnimplemented(m) == Panic(m, NotImplemented)

----
\* The match of Emu::execute.  The patterns of the code are disjoint but
\* for the last, which takes what no other arm takes.

execute(m, op, rng, oc) ==
    LET d1  == Digit1(op)
        x   == Digit2(op)
        y   == Digit3(op)
        d4  == Digit4(op)
        nn  == NN(op)
        nnn == NNN(op)
    IN  CASE d1 = 0 /\ x = 0 /\ y = 0 /\ d4 = 0    -> m
          [] d1 = 0 /\ x = 0 /\ y = 14 /\ d4 = 0   -> ExecCls(m)
          [] d1 = 0 /\ x = 0 /\ y = 14 /\ d4 = 14  -> ExecRet(m, oc)
          [] d1 = 1                                -> ExecJmp(m, nnn)
          [] d1 = 2                                -> ExecCall(m, nnn)
          [] d1 = 3                                -> ExecSkipEqNN(m, x, nn)
          [] d1 = 4                                -> ExecSkipNeNN(m, x, nn)
          [] d1 = 5                                -> ExecSkipEq(m, x, y)
          [] d1 = 6                                -> ExecSetNN(m, x, nn)
          [] d1 = 7                                -> ExecAddNN(m, x, nn)
          [] d1 = 8 /\ d4 = 0                      -> ExecMov(m, x, y)
          [] d1 = 8 /\ d4 = 1                      -> ExecOr(m, x, y)
          [] d1 = 8 /\ d4 = 2                      -> ExecAnd(m, x, y)
          [] d1 = 8 /\ d4 = 3                      -> ExecXor(m, x, y)
          [] d1 = 8 /\ d4 = 4                      -> ExecAdd(m, x, y)
          [] d1 = 8 /\ d4 = 5                      -> ExecSub(m, x, y)
          [] d1 = 8 /\ d4 = 6                      -> ExecShr(m, x)
          [] d1 = 8 /\ d4 = 7                      -> ExecSubN(m, x, y)
          [] d1 = 8 /\ d4 = 14                     -> ExecShl(m, x)
          [] d1 = 9 /\ d4 = 0                      -> ExecSkipNe(m, x, y)
          [] d1 = 10                               -> ExecSetI(m, nnn)
          [] d1 = 11                               -> ExecJmpV0(m, nnn)
          [] d1 = 12                               -> ExecRand(m, x, nn, rng)
          [] d1 = 13                               -> ExecDraw(m, x, y, d4, oc)
          [] d1 = 14 /\ y = 9 /\ d4 = 14           -> ExecSkipKey(m, x)
          [] d1 = 14 /\ y = 10 /\ d4 = 1           -> ExecSkipNoKey(m, x)
          [] d1 = 15 /\ y = 0 /\ d4 = 7            -> ExecGetDelay(m, x)
          [] d1 = 15 /\ y = 0 /\ d4 = 10           -> ExecWaitKey(m, x)
          [] d1 = 15 /\ y = 1 /\ d4 = 5            -> ExecSetDelay(m, x)
          [] d1 = 15 /\ y = 1 /\ d4 = 8            -> ExecSetSound(m, x)
          [] d1 = 15 /\ y = 1 /\ d4 = 14           -> ExecAddI(m, x)
          [] d1 = 15 /\ y = 2 /\ d4 = 9            -> ExecFont(m, x)
          [] d1 = 15 /\ y = 3 /\ d4 = 3            -> ExecBcd(m, x)
          [] d1 = 15 /\ y = 5 /\ d4 = 5            -> ExecStore(m, x)
          [] d1 = 15 /\ y = 6 /\ d4 = 5            -> ExecLoad(m, x)
          [] OTHER                                 -> ExecUnimplemented(m)

\* a tick that also runs the timers
tickAgeing(m, rng, oc) ==
    LET f == fetch(m)
    IN  IF Panicked(f.m) THEN f.m ELSE tick_timers(execute(f.m, f.op, rng, oc))

\* Emu::tick: fetch, then execute unless the fetch panicked
tick(m, rng, oc) ==
    LET f == fetch(m)
    IN  IF Panicked(f.m) THEN f.m ELSE execute(f.m, f.op, rng, oc)

\* What the host gets from a call of new, reset, load, keypress, tick or
\* tick_timers: all return (), none returns a Result; a panic unwinds.
Outcome(m) == IF Panicked(m) THEN "panic" ELSE "()"

----
\* Bounds of the model

\* the host presses and releases the keys 0..MaxKey
MaxKey == 1
\* the host lets at most MaxNops instructions 0000 run between two resets
MaxNops == 2

\* the bytes the random generator of CXNN returns
RandBytes == {0, 165, 255}

----
\* Programs the host loads.  An instruction is its two bytes, high byte
\* first.

Ins(d1, d2, d3, d4) == << d1 * 16 + d2, d3 * 16 + d4 >>
InsNN(d1, x, nn) == << d1 * 16 + x, nn >>
InsNNN(d1, nnn) == << d1 * 16 + (nnn \div 256), nnn % 256 >>

\* the program followed by a jump to itself
Halting(prog) == prog \o InsNNN(1, START_ADDR + Len(prog))

DrawXs == {61, 250}
DrawYs == {0, 29, 63}
SpriteAddrs == {0, 80, 512, 4090}
RowCounts == {0, 5, 15}

\* draw on the blank screen, move two pixels right, draw twice
DrawProgs ==
    { Halting(InsNN(6, 0, vx) \o InsNN(6, 1, vy) \o InsNNN(10, i) \o Ins(13, 0, 1, n)
        \o InsNN(7, 0, 2) \o Ins(13, 0, 1, n) \o Ins(13, 0, 1, n) \o Ins(0, 0, 14, 0)) :
        vx \in DrawXs, vy \in DrawYs, i \in SpriteAddrs, n \in RowCounts }

\* draws whose origin register is VF
DrawFlagProgs ==
    { Halting(InsNN(6, 15, 3) \o InsNNN(10, 0) \o Ins(13, 15, 0, 5) \o Ins(13, 15, 0, 5)),
      Halting(InsNN(6, 15, 1) \o InsNNN(10, 5) \o Ins(13, 0, 15, 5) \o Ins(13, 0, 15, 5)
        \o Ins(13, 0, 15, 5)) }

CallProgs ==
    { InsNNN(2, 518) \o InsNN(6, 0, 1) \o InsNNN(1, 516) \o Ins(0, 0, 14, 14),
      InsNNN(2, 516) \o InsNNN(1, 514) \o InsNNN(2, 520) \o Ins(0, 0, 14, 14)
        \o Ins(0, 0, 14, 14),
      InsNN(6, 0, 5) \o InsNNN(2, 520) \o InsNNN(1, 516) \o InsNNN(1, 516)
        \o Ins(0, 0, 14, 14),
      InsNNN(2, 512),
      Ins(0, 0, 14, 14),
      InsNNN(2, 4095),
      InsNNN(2, 4094),
      InsNNN(2, 516) \o InsNN(6, 0, 1) \o Ins(0, 0, 14, 14) }

\* sixteen nested calls of one subroutine, then sixteen returns; three
\* nested calls from three places
NestProgs ==
    { InsNNN(2, 516) \o InsNNN(1, 514) \o InsNN(7, 0, 1) \o InsNN(3, 0, 16)
        \o InsNNN(2, 516) \o Ins(0, 0, 14, 14),
      InsNNN(2, 518) \o InsNNN(2, 522) \o InsNNN(1, 516) \o InsNNN(2, 522)
        \o Ins(0, 0, 14, 14) \o InsNNN(2, 526) \o Ins(0, 0, 14, 14)
        \o Ins(0, 0, 14, 14) }

\* both timers set to 5, then one instruction of each kind
MixProgs ==
    { InsNN(6, 14, 5) \o Ins(15, 14, 1, 5) \o Ins(15, 14, 1, 8)
        \o InsNN(6, 0, 3) \o InsNN(7, 0, 5) \o Ins(8, 1, 0, 0) \o Ins(8, 1, 0, 4)
        \o Ins(8, 1, 0, 5) \o Ins(8, 0, 1, 6) \o Ins(8, 0, 1, 7) \o Ins(8, 0, 1, 14)
        \o Ins(8, 0, 1, 1) \o Ins(8, 0, 1, 2) \o Ins(8, 0, 1, 3)
        \o InsNNN(10, 768) \o Ins(15, 1, 3, 3) \o Ins(15, 1, 5, 5) \o Ins(15, 1, 6, 5)
        \o Ins(15, 1, 1, 14) \o Ins(15, 1, 2, 9) \o Ins(13, 0, 1, 5) \o InsNN(12, 0, 255)
        \o InsNN(6, 0, 1) \o InsNN(3, 0, 1) \o Ins(0, 0, 14, 0) \o InsNN(4, 0, 1)
        \o Ins(5, 0, 1, 0) \o Ins(9, 0, 1, 0) \o Ins(14, 0, 9, 14) \o Ins(14, 0, 10, 1)
        \o InsNNN(2, 580) \o InsNNN(11, 575) \o Ins(15, 0, 0, 10) \o InsNNN(1, 578)
        \o Ins(0, 0, 14, 14) }

JumpProgs ==
    { InsNNN(1, nnn) : nnn \in {512, 514, 4092, 4094, 4095} }
    \cup { InsNN(6, 0, v0) \o InsNNN(11, nnn) \o InsNNN(1, 516) :
             v0 \in {0, 2, 255}, nnn \in {514, 3841, 4092, 4094, 4095} }

\* opcodes outside the instruction table
UnknownOps ==
    { Ins(5, 10, 11, 1), Ins(5, 0, 1, 15), Ins(9, 0, 1, 1), Ins(8, 0, 0, 8),
      Ins(8, 1, 2, 13), Ins(8, 0, 0, 15), Ins(0, 1, 2, 3), Ins(0, 0, 14, 1),
      Ins(0, 0, 0, 1), Ins(14, 0, 0, 0), Ins(14, 0, 9, 15), Ins(14, 1, 10, 2),
      Ins(15, 0, 0, 0), Ins(15, 1, 15, 15), Ins(15, 2, 0, 11) }

UnknownProgs ==
    { InsNN(6, 0, v0) \o u \o InsNNN(1, 516) \o InsNNN(1, 518) :
        v0 \in {0, 1}, u \in UnknownOps }

SkipProgs ==
    { InsNN(6, 0, v0) \o InsNN(6, 1, 1) \o s \o InsNNN(1, 518) \o InsNNN(1, 520) :
        v0 \in {0, 1},
        s \in { InsNN(3, 0, 1), InsNN(4, 0, 1), Ins(5, 0, 1, 0), Ins(9, 0, 1, 0) } }

KeyProgs ==
    { InsNN(6, 0, kk) \o k \o InsNNN(1, 516) \o InsNNN(1, 518) :
        kk \in {0, 1, 15, 16, 255}, k \in { Ins(14, 0, 9, 14), Ins(14, 0, 10, 1) } }
    \cup { Halting(InsNN(6, 3, 9) \o Ins(15, 3, 0, 10) \o Ins(15, 4, 0, 10)) }

MemAddrs == {0, 78, 768, 4093, 4094, 4095}

BcdProgs ==
    { Halting(InsNN(6, 3, v) \o InsNNN(10, i) \o Ins(15, 3, 3, 3) \o Ins(15, 2, 6, 5)) :
        v \in {0, 7, 157, 255}, i \in MemAddrs }

RegProgs ==
    { Halting(InsNN(6, 0, 17) \o InsNN(6, 1, 34) \o InsNN(6, 2, 51) \o InsNNN(10, i)
        \o Ins(15, x, 5, 5) \o InsNN(6, 0, 0) \o InsNN(6, 1, 1) \o Ins(15, x, 6, 5)) :
        i \in MemAddrs, x \in {0, 1, 2} }

\* the index register past the memory: I = 0xFFF + 0xFF
FarIndexProgs ==
    { Halting(InsNN(6, 0, 255) \o InsNNN(10, 4095) \o Ins(15, 0, 1, 14) \o t) :
        t \in { Ins(15, 0, 3, 3), Ins(15, 0, 5, 5), Ins(15, 0, 6, 5),
                Ins(13, 1, 1, 1), Ins(15, 0, 1, 14) } }

AluProgs ==
    { Halting(InsNN(6, x, a) \o InsNN(6, 1, b) \o Ins(8, x, 1, k)) :
        x \in {0, 15}, a \in {1, 255}, b \in {1, 129},
        k \in {0, 1, 2, 3, 4, 5, 6, 7, 14} }

AddProgs ==
    { Halting(InsNN(6, x, a) \o InsNN(7, x, b)) :
        x \in {0, 15}, a \in {0, 200}, b \in {1, 100} }

TimerProgs ==
    { Halting(InsNN(6, 0, 3) \o Ins(15, 0, 1, 5) \o InsNN(6, 0, 2) \o Ins(15, 0, 1, 8)
        \o Ins(15, 1, 0, 7)),
      Halting(InsNN(6, 0, 2) \o Ins(15, 0, 1, 5) \o InsNN(6, 5, 1) \o Ins(15, 5, 1, 5)
        \o InsNN(6, 5, 0) \o Ins(15, 5, 1, 5)),
      Halting(InsNN(6, 15, 255) \o Ins(15, 15, 1, 5)),
      Halting(InsNN(6, 1, 255) \o Ins(15, 1, 1, 8)) }

MiscProgs ==
    { Halting(InsNN(12, 0, 255)), Halting(InsNN(12, 1, 15)),
      Halting(InsNN(6, 0, 10) \o Ins(15, 0, 2, 9) \o Ins(13, 1, 1, 5) \o Ins(0, 0, 14, 0)),
      Halting(InsNN(6, 5, 255) \o Ins(15, 5, 2, 9)) }

\* the largest program that fits, its last byte at the last address of the
\* memory, and a program one byte longer
FullProg ==
    [i \in 1..(RAM_SIZE - START_ADDR) |->
        IF i = 1 THEN 18 ELSE IF i = RAM_SIZE - START_ADDR THEN 171 ELSE 0]
OverfullProg == [i \in 1..(RAM_SIZE - START_ADDR + 1) |-> IF i = 1 THEN 18 ELSE 0]

LoadProgs == { << >>, << 18 >>, Ins(1, 2, 0, 0), FullProg, OverfullProg }

\* the programs the host loads after a reset
ReloadProgs ==
    { Halting(InsNN(6, 0, 10) \o Ins(15, 0, 2, 9) \o Ins(13, 1, 1, 5)),
      Halting(InsNN(6, 3, 157) \o InsNNN(10, 0) \o Ins(15, 3, 3, 3)),
      << >> }

Programs ==
    DrawProgs \cup DrawFlagProgs \cup CallProgs \cup JumpProgs \cup UnknownProgs
    \cup SkipProgs \cup KeyProgs \cup BcdProgs \cup RegProgs \cup FarIndexProgs
    \cup AluProgs \cup AddProgs \cup TimerProgs \cup MiscProgs \cup LoadProgs
    \cup NestProgs

----
\* The state: the machine and what the host last did.

VARIABLES
    emu,    \* the Emu
    nops,   \* instructions 0000 run since new or the last reset
    last,   \* the host's last call and its arguments
    pre,    \* the machine before the last call
    pre2,   \* the machine before the tick that preceded the last tick,
            \* when the last two calls were ticks
    delay,  \* the value the last FX15 (or new, or reset) gave the delay
            \* timer, and the calls of tick_timers since, counted up to
            \* that value
    calls,  \* the addresses following the 2NNN executed and not yet
            \* returned from, in call order, and the one the last 00EE
            \* took off
    saved   \* the X, the index register and the registers of the last
            \* FX55, as long as no instruction has written the index
            \* register or the memory since

vars == << emu, nops, last, pre, pre2, delay, calls, saved >>

NoSave == [ok |-> FALSE, x |-> 0, i |-> 0, v |-> NewEmu.v_reg]

\* the opcode writes the index register or the memory
WritesIndexOrMemory(op) ==
    \/ Digit1(op) = 10
    \/ Digit1(op) = 15 /\ NN(op) \in {30, 41, 51, 85}

Call(name, chain, idx, pressed, data) ==
    [call |-> name, chain |-> chain, idx |-> idx, pressed |-> pressed, data |-> data]

\* the opcode the next fetch returns, 0 when the fetch panics
NextOp(m) == fetch(m).op

Init ==
    /\ emu = NewEmu
    /\ nops = 0
    /\ last = Call("new", FALSE, 0, FALSE, << >>)
    /\ pre = NewEmu
    /\ pre2 = NewEmu
    /\ delay = [set |-> 0, calls |-> 0]
    /\ calls = [open |-> << >>, returned |-> 0]
    /\ saved = NoSave

Load(data) ==
    /\ ~Panicked(emu)
    /\ emu' = load(emu, data)
    /\ last' = Call("load", FALSE, 0, FALSE, data)
    /\ pre' = emu
    /\ pre2' = NewEmu
    /\ saved' = NoSave
    /\ UNCHANGED << nops, delay, calls >>

\* the tick executes FX15
SetsDelay(m) ==
    /\ ~Panicked(fetch(m).m)
    /\ Digit1(NextOp(m)) = 15
    /\ NN(NextOp(m)) = 21

\* rng is the byte the random generator returns, oc whether the build
\* checks integer overflow
Tick(rng, oc) ==
    /\ ~Panicked(emu)
    /\ ~Panicked(fetch(emu).m) /\ NextOp(emu) = 0 => nops < MaxNops
    /\ emu' = tick(emu, rng, oc)
    /\ nops' = IF ~Panicked(fetch(emu).m) /\ NextOp(emu) = 0 THEN nops + 1 ELSE nops
    /\ last' = Call("tick", last.call = "tick", 0, FALSE, << >>)
    /\ pre' = emu
    /\ pre2' = IF last.call = "tick" THEN pre ELSE NewEmu
    /\ delay' = IF SetsDelay(emu)
                THEN [set |-> emu.v_reg[Digit2(NextOp(emu))], calls |-> 0]
                ELSE delay
    /\ calls' = IF Panicked(emu') THEN calls
                ELSE IF Digit1(NextOp(emu)) = 2
                THEN [calls EXCEPT !.open = Append(@, emu.pc + 2)]
                ELSE IF NextOp(emu) = 238 /\ calls.open # << >>
                THEN [open     |-> SubSeq(calls.open, 1, Len(calls.open) - 1),
                      returned |-> calls.open[Len(calls.open)]]
                ELSE calls
    /\ saved' = IF Panicked(emu') THEN NoSave
                ELSE IF Digit1(NextOp(emu)) = 15 /\ NN(NextOp(emu)) = 85
                THEN [ok |-> TRUE, x |-> Digit2(NextOp(emu)), i |-> emu.i_reg,
                      v |-> emu.v_reg]
                ELSE IF WritesIndexOrMemory(NextOp(emu)) THEN NoSave
                ELSE saved

TickTimers ==
    /\ ~Panicked(emu)
    /\ emu' = tick_timers(emu)
    /\ last' = Call("tick_timers", FALSE, 0, FALSE, << >>)
    /\ pre' = emu
    /\ pre2' = NewEmu
    /\ delay' = [delay EXCEPT !.calls = IF @ < delay.set THEN @ + 1 ELSE @]
    /\ UNCHANGED << nops, calls, saved >>

Keypress(idx, pressed) ==
    /\ ~Panicked(emu)
    /\ emu' = keypress(emu, idx, pressed)
    /\ last' = Call("keypress", FALSE, idx, pressed, << >>)
    /\ pre' = emu
    /\ pre2' = NewEmu
    /\ UNCHANGED << nops, delay, calls, saved >>

Reset ==
    /\ ~Panicked(emu)
    /\ emu' = ResetEmu(emu)
    /\ nops' = 0
    /\ last' = Call("reset", FALSE, 0, FALSE, << >>)
    /\ pre' = emu
    /\ pre2' = NewEmu
    /\ delay' = [set |-> 0, calls |-> 0]
    /\ calls' = [open |-> << >>, returned |-> 0]
    /\ saved' = NoSave

\* the host: it loads a program once, before execution begins, one of
\* `progs` into the machine fresh from new and one of ReloadProgs after a
\* reset
Host(progs) ==
    \/ /\ last.call \in {"new", "reset"}
       /\ \E data \in (IF last.call = "new" THEN progs ELSE ReloadProgs) : Load(data)
    \/ \E rng \in RandBytes, oc \in BOOLEAN : Tick(rng, oc)
    \/ TickTimers
    \/ \E idx \in (0..MaxKey) \cup {NUM_KEYS}, pressed \in BOOLEAN : Keypress(idx, pressed)
    \/ Reset

Next == Host(Programs)

Spec == Init /\ [][Next]_vars

\* the programs a host loads at any time, over what the machine holds
AnytimeProgs ==
    { << 18 >>, Halting(InsNN(6, 3, 157) \o Ins(15, 3, 1, 5)) }

\* the programs the same host loads first
FirstProgs ==
    { << >>, FullProg, OverfullProg,
      Halting(InsNN(6, 0, 3) \o Ins(15, 0, 1, 5) \o InsNNN(2, 520) \o InsNNN(1, 518)
        \o InsNNN(10, 768) \o Ins(15, 0, 5, 5) \o Ins(13, 0, 0, 1)) }

\* The arithmetic instructions 8XY4, 8XY5, 8XY6, 8XY7, 8XYE on the corner
\* values of the registers, the flag register as X, as Y and as both
AluValues == {0, 1, 128, 255}
AluOps == {4, 5, 6, 7, 14}

AluCornerProgs ==
    { Halting(InsNN(6, x, a) \o InsNN(6, y, b) \o Ins(8, x, y, k)) :
        x \in {0, 1, 15}, y \in {1, 15}, a \in AluValues, b \in AluValues, k \in AluOps }

NextAlu == Host(AluCornerProgs)

SpecAlu == Init /\ [][NextAlu]_vars

\* FX33 on every value of a register, and on corner values at the corners
\* of the memory, over the font set and over the program itself
BcdAllProgs ==
    { Halting(InsNN(6, 3, v) \o InsNNN(10, 768) \o Ins(15, 3, 3, 3)) : v \in 0..(U8 - 1) }
    \cup { Halting(InsNN(6, x, v) \o InsNNN(10, i) \o Ins(15, x, 3, 3)) :
             x \in {0, 15}, v \in {0, 9, 10, 99, 100, 157, 255},
             i \in {0, 78, 512, 518, 4092, 4093, 4094} }

NextBcd == Host(BcdAllProgs)

SpecBcd == Init /\ [][NextBcd]_vars

\* FX29 on every glyph, and on values that are no glyph
FontProgs ==
    { Halting(InsNN(6, x, c) \o Ins(15, x, 2, 9)) :
        x \in {0, 5, 15}, c \in (0..15) \cup {16, 255} }

NextFont == Host(FontProgs)

SpecFont == Init /\ [][NextFont]_vars

\* 6X NN1 followed by 7X NN2: the corner bytes on three registers, every
\* NN2 on one, and the same after V[F] was set
AddBytes == {0, 1, 56, 128, 255}

AddPairProgs ==
    { Halting(InsNN(6, x, nn1) \o InsNN(7, x, nn2)) :
        x \in {0, 14, 15}, nn1 \in AddBytes, nn2 \in AddBytes }
    \cup { Halting(InsNN(6, 3, 200) \o InsNN(7, 3, nn2)) : nn2 \in 0..(U8 - 1) }
    \cup { Halting(InsNN(6, 15, 1) \o InsNN(6, 2, nn1) \o InsNN(7, 2, 255)) :
             nn1 \in AddBytes }

NextAddPair == Host(AddPairProgs)

SpecAddPair == Init /\ [][NextAddPair]_vars

\* the instructions of every kind run while the timers run
NextMix == Host(MixProgs \cup TimerProgs)

SpecMix == Init /\ [][NextMix]_vars

\* FX55, changes to the registers stored, FX65: one register, three and
\* all sixteen, in the middle of the memory and up to its last byte
StoreLoadProgs ==
    { Halting(InsNN(6, 0, 17) \o InsNN(6, 1, 34) \o InsNN(6, 2, 51) \o InsNN(6, 15, 68)
        \o InsNNN(10, i) \o Ins(15, x, 5, 5) \o InsNN(6, 0, 0) \o InsNN(6, 15, 9)
        \o Ins(8, 1, 2, 4) \o Ins(15, x, 6, 5)) :
        i \in {768, 4080, 4093, 4095}, x \in {0, 2, 15} }

NextStoreLoad == Host(StoreLoadProgs \cup RegProgs \cup FarIndexProgs)

SpecStoreLoad == Init /\ [][NextStoreLoad]_vars

\* a host that does not keep to one load before execution: load is
\* callable in every state
NextLoad ==
    \/ Host(FirstProgs)
    \/ \E data \in AnytimeProgs : Load(data)

SpecLoad == Init /\ [][NextLoad]_vars

----
\* Properties.  `last`, `pre` and `pre2` tell what the host last called and
\* the machine it called it on.

\* the last call was a tick whose fetch succeeded
TickRan == last.call = "tick" /\ ~Panicked(fetch(pre).m)
\* the opcode the last tick executed
LastOp == NextOp(pre)
\* the last two calls were ticks whose fetches succeeded
TwoTicksRan == TickRan /\ last.chain /\ ~Panicked(fetch(pre2).m)
\* the opcode the tick before the last tick executed
PrevOp == NextOp(pre2)

IsWaitKey(op) == Digit1(op) = 15 /\ Digit3(op) = 0 /\ Digit4(op) = 10
PressedKeys(m) == {i \in 0..(NUM_KEYS - 1) : m.keys[i]}

\* C1: a tick that executes FX0A with no key pressed leaves the program
\* counter, and so the next opcode fetched, as they were; a tick that
\* executes FX0A with a key pressed sets V[X] to the lowest index of a
\* pressed key and leaves the program counter 2 past the FX0A.
C1_KeyWait ==
    (TickRan /\ IsWaitKey(LastOp)) =>
        IF PressedKeys(pre) = {}
        THEN /\ emu.pc = pre.pc
             /\ NextOp(emu) = LastOp
             /\ emu.v_reg = pre.v_reg
        ELSE /\ emu.pc = pre.pc + 2
             /\ emu.v_reg[Digit2(LastOp)] \in PressedKeys(pre)
             /\ \A j \in PressedKeys(pre) : emu.v_reg[Digit2(LastOp)] <= j

\* a tick executed FX0A with two keys pressed and took the lower one
C1_Witness ==
    /\ TickRan /\ IsWaitKey(LastOp)
    /\ Cardinality(PressedKeys(pre)) >= 2
    /\ emu.v_reg[Digit2(LastOp)] # pre.v_reg[Digit2(LastOp)]
    /\ emu.pc = pre.pc + 2

\* two ticks in a row executed the same FX0A with no key pressed
C1_WitnessWaiting ==
    /\ TwoTicksRan /\ IsWaitKey(LastOp) /\ IsWaitKey(PrevOp)
    /\ PressedKeys(pre2) = {} /\ PressedKeys(pre) = {}
    /\ emu.pc = pre2.pc

----
\* DXYN

IsDraw(op) == Digit1(op) = 13

\* the sprite of the DXYN `op` on machine m: its set bits as pairs
\* << row, col >>, col 0 the most significant bit of the row's byte
SpriteBits(m, op) ==
    { rc \in (0..(Digit4(op) - 1)) \X (0..7) :
        m.i_reg + rc[1] < RAM_SIZE
        /\ (Byte(m.ram, m.i_reg + rc[1]) \div (2 ^ (7 - rc[2]))) % 2 = 1 }

\* the sprite's rows all lie in the memory
SpriteInRam(m, op) == m.i_reg + Digit4(op) <= RAM_SIZE

\* the display index the spec gives for sprite bit << row, col >>, the
\* display being `width` wide and the rows wrapping at `height`
Target(m, op, rc, width, height) ==
    ((m.v_reg[Digit2(op)] + rc[2]) % width)
        + width * ((m.v_reg[Digit3(op)] + rc[1]) % height)

Targets(m, op) == { Target(m, op, rc, 64, 32) : rc \in SpriteBits(m, op) }

Toggled(idx) == (idx \in emu.screen) # (idx \in pre.screen)

DrawRan == TickRan /\ IsDraw(LastOp) /\ SpriteInRam(pre, LastOp) /\ ~Panicked(emu)

\* the last two ticks executed the same DXYN with the same sprite at the
\* same origin
DrewTwice ==
    /\ TwoTicksRan /\ DrawRan
    /\ PrevOp = LastOp
    /\ pre2.v_reg[Digit2(LastOp)] = pre.v_reg[Digit2(LastOp)]
    /\ pre2.v_reg[Digit3(LastOp)] = pre.v_reg[Digit3(LastOp)]
    /\ pre2.i_reg = pre.i_reg
    /\ SpriteBits(pre2, LastOp) = SpriteBits(pre, LastOp)

C3_DrawCollision ==
    DrawRan =>
        /\ emu.v_reg[15] = IF Targets(pre, LastOp) \cap pre.screen # {} THEN 1 ELSE 0
        /\ (emu.v_reg[15] = 1) <=> (pre.screen \ emu.screen # {})
        /\ emu.screen \ Targets(pre, LastOp) = pre.screen \ Targets(pre, LastOp)

\* a draw turned a pixel off and another on, and set V[F]
C3_Witness ==
    /\ DrawRan
    /\ pre.screen \ emu.screen # {}
    /\ emu.screen \ pre.screen # {}
    /\ emu.v_reg[15] = 1
    /\ pre.v_reg[15] = 0

\* C4, as stated: every set bit toggles the pixel at
\* ((V[X]+col) mod 64, (V[Y]+row) mod 64), at display index x + 64*y.
C4_DrawAddressingAsStated ==
    DrawRan => \A rc \in SpriteBits(pre, LastOp) : Toggled(Target(pre, LastOp, rc, 64, 64))

\* C4, amended: every set bit toggles the pixel at
\* ((V[X]+col) mod 64, (V[Y]+row) mod 32) of the 64 x 32 display, at display
\* index x + 64*y.
C4_DrawAddressing ==
    DrawRan =>
        /\ \A rc \in SpriteBits(pre, LastOp) : Toggled(Target(pre, LastOp, rc, 64, 32))
        /\ emu.screen \subseteq 0..(SCREEN_WIDTH * SCREEN_HEIGHT - 1)

\* a draw toggled a pixel that wrapped at the right and at the bottom edge
C4_Witness ==
    /\ DrawRan
    /\ \E rc \in SpriteBits(pre, LastOp) :
          /\ (pre.v_reg[Digit2(LastOp)] % 64) + rc[2] >= 64
          /\ (pre.v_reg[Digit3(LastOp)] % 32) + rc[1] >= 32
          /\ Toggled(Target(pre, LastOp, rc, 64, 32))

----
\* Calls, returns and jumps

IsCall(op) == Digit1(op) = 2
IsRet(op) == op = 238

\* C5: with fewer than 16 return addresses on the stack, a tick executing
\* 2NNN at address A followed by a tick executing 00EE at NNN leaves the
\* program counter at A + 2 and the stack pointer as it was before the call.
C5_StackRoundTrip ==
    (TwoTicksRan /\ IsCall(PrevOp) /\ IsRet(LastOp) /\ pre2.sp < STACK_SIZE) =>
        /\ pre.pc = NNN(PrevOp)
        /\ ~Panicked(emu)
        /\ emu.pc = pre2.pc + 2
        /\ emu.sp = pre2.sp

\* a nested call (one return address already on the stack) returned
C5_Witness ==
    /\ TwoTicksRan /\ IsCall(PrevOp) /\ IsRet(LastOp)
    /\ pre2.sp >= 1
    /\ pre.sp = pre2.sp + 1
    /\ emu.pc = pre2.pc + 2
    /\ emu.pc # pre.pc + 2

\* C6: a tick whose program counter, or program counter + 1, lies outside
\* the memory ends in a MemoryFault failure result given to the host, not in
\* an out-of-range access or the end of the process.
C6_FetchFault ==
    (last.call = "tick" /\ pre.pc + 1 >= RAM_SIZE) => Outcome(emu) = "MemoryFault"

\* C7: 2NNN with 16 return addresses on the stack and 00EE with none give
\* the host a StackOverflow or StackUnderflow failure result; the stack
\* pointer does not wrap and the process does not end.
C7_StackFaults ==
    /\ (TickRan /\ IsCall(LastOp) /\ pre.sp >= STACK_SIZE) =>
           (Outcome(emu) = "StackOverflow" /\ emu.sp <= STACK_SIZE)
    /\ (TickRan /\ IsRet(LastOp) /\ pre.sp = 0) =>
           (Outcome(emu) = "StackUnderflow" /\ emu.sp <= STACK_SIZE)

----
\* Decoding

\* the patterns of the instruction table
InTable(op) ==
    LET d1 == Digit1(op)
        d2 == Digit2(op)
        d3 == Digit3(op)
        d4 == Digit4(op)
    IN  \/ op \in {0, 224, 238}
        \/ d1 \in {1, 2, 3, 4, 6, 7, 10, 11, 12, 13}
        \/ d1 \in {5, 9} /\ d4 = 0
        \/ d1 = 8 /\ d4 \in {0, 1, 2, 3, 4, 5, 6, 7, 14}
        \/ d1 = 14 /\ << d3, d4 >> \in { << 9, 14 >>, << 10, 1 >> }
        \/ d1 = 15 /\ << d3, d4 >> \in { << 0, 7 >>, << 0, 10 >>, << 1, 5 >>, << 1, 8 >>,
                                        << 1, 14 >>, << 2, 9 >>, << 3, 3 >>, << 5, 5 >>,
                                        << 6, 5 >> }

\* C8: an opcode that matches no pattern of the instruction table ends the
\* tick in the fatal decode error; it is not executed as another
\* instruction and not skipped.
C8_UnknownOpcode ==
    (TickRan /\ ~InTable(LastOp)) => emu.panic = NotImplemented

----
\* Indices taken from registers

IsKeySkip(op) ==
    Digit1(op) = 14 /\ << Digit3(op), Digit4(op) >> \in { << 9, 14 >>, << 10, 1 >> }
IsBcd(op) == Digit1(op) = 15 /\ Digit3(op) = 3 /\ Digit4(op) = 3
IsStore(op) == Digit1(op) = 15 /\ Digit3(op) = 5 /\ Digit4(op) = 5
IsLoad(op) == Digit1(op) = 15 /\ Digit3(op) = 6 /\ Digit4(op) = 5

\* C9: EX9E and EXA1 with V[X] > 15, and DXYN, FX33, FX55 and FX65 with
\* I + offset >= 4096, do not panic and change nothing but what the
\* instruction writes.
C9_NoAbortOnIndex ==
    (TickRan /\ (IsKeySkip(LastOp) \/ IsDraw(LastOp) \/ IsBcd(LastOp)
                   \/ IsStore(LastOp) \/ IsLoad(LastOp))) =>
        /\ ~Panicked(emu)
        /\ emu.sp = pre.sp /\ emu.stack = pre.stack /\ emu.keys = pre.keys
        /\ emu.dt = pre.dt /\ emu.st = pre.st /\ emu.i_reg = pre.i_reg

----
\* load

\* C10: load of more than 4096 - 0x200 = 3584 bytes gives the caller a
\* CapacityExceeded error and leaves the machine as it was; load of at most
\* 3584 bytes succeeds.
C10_LoadCapacity ==
    last.call = "load" =>
        IF Len(last.data) > RAM_SIZE - START_ADDR
        THEN Outcome(emu) = "CapacityExceeded" /\ [emu EXCEPT !.panic = NoPanic] = pre
        ELSE Outcome(emu) = "()"

----
\* C11: load(bytes) with len(bytes) <= 3584 makes memory[0x200 + i] =
\* bytes[i] for every i < len(bytes) and leaves every other memory byte, the
\* program counter, the registers, the index register, the stack and stack
\* pointer, the keypad, the display and both timers as they were; no byte
\* is validated, the load never fails.  (An address outside the domains of
\* both memories holds 0 before and after.)
C11_LoadFrame ==
    (last.call = "load" /\ Len(last.data) <= RAM_SIZE - START_ADDR) =>
        /\ \A a \in DOMAIN emu.ram \cup DOMAIN pre.ram
                       \cup (START_ADDR..(START_ADDR + Len(last.data) - 1)) :
               Byte(emu.ram, a) =
                   IF a >= START_ADDR /\ a < START_ADDR + Len(last.data)
                   THEN last.data[a - START_ADDR + 1]
                   ELSE Byte(pre.ram, a)
        /\ [emu EXCEPT !.ram = pre.ram] = pre
        /\ ~Panicked(emu)

\* a program was loaded over a longer one, the machine having run: the
\* program counter, a register, a key, a timer and the stack are not those
\* of new()
C11_Witness ==
    /\ last.call = "load"
    /\ Len(last.data) \in 1..(RAM_SIZE - START_ADDR - 1)
    /\ \E a \in (START_ADDR + Len(last.data))..(RAM_SIZE - 1) : Byte(emu.ram, a) # 0
    /\ emu.pc # START_ADDR
    /\ emu.v_reg # NewEmu.v_reg
    /\ emu.keys # NewEmu.keys
    /\ emu.dt # 0
    /\ ~Panicked(emu)

----
\* C12: reset, called in any state reached through load, tick, tick_timers
\* and keypress, yields exactly the state new() constructs: program
\* counter 0x200, memory[0..80) the font set, every other memory byte, every
\* register, the index register, the stack, the stack pointer, the keypad,
\* the display and both timers zero / false.
C12_ResetIsNew ==
    last.call = "reset" =>
        /\ emu = NewEmu
        /\ emu.pc = START_ADDR
        /\ \A a \in 0..(FONTSET_SIZE - 1) : Byte(emu.ram, a) = FONTSET[a + 1]
        /\ DOMAIN emu.ram \subseteq 0..(FONTSET_SIZE - 1)
        /\ \A r \in 0..(NUM_REGS - 1) : emu.v_reg[r] = 0
        /\ \A s \in 0..(STACK_SIZE - 1) : emu.stack[s] = 0
        /\ \A k \in 0..(NUM_KEYS - 1) : ~emu.keys[k]
        /\ emu.i_reg = 0 /\ emu.sp = 0 /\ emu.screen = {}
        /\ emu.dt = 0 /\ emu.st = 0

\* reset of a machine holding a program, whose font bytes were overwritten
\* and whose program counter, registers, index register and keypad are not
\* those of new()
C12_Witness ==
    /\ last.call = "reset"
    /\ \E a \in 0..(FONTSET_SIZE - 1) : Byte(pre.ram, a) # FONTSET[a + 1]
    /\ Byte(pre.ram, START_ADDR) # 0
    /\ pre.pc # START_ADDR
    /\ pre.v_reg # NewEmu.v_reg
    /\ pre.keys # NewEmu.keys

----
\* C13: in every state reached from new() by load and any sequence of tick,
\* tick_timers and keypress, the program counter is even and both it and
\* the following byte are addresses of the memory: 0 <= pc <= 4094.  (A
\* call that panicked is left aside: the violation looked for is a machine
\* that goes on with such a program counter.)
C13_PcInvariant ==
    ~Panicked(emu) => (emu.pc % 2 = 0 /\ emu.pc >= 0 /\ emu.pc <= RAM_SIZE - 2)

\* C14: in every state reached from new() by load, reset and any sequence
\* of ticks, FX33 and FX55 with any index register included, the memory
\* bytes [0, 80) are the font set.
C14_FontInvariant ==
    \A a \in 0..(FONTSET_SIZE - 1) : Byte(emu.ram, a) = FONTSET[a + 1]

----
\* C15: tick_timers takes 1 from the delay timer if it is nonzero and
\* leaves it at 0 if it is 0, does the same for the sound timer, and changes
\* nothing else; both timers stay in 0..255; after FX15 has set the delay
\* timer to n, exactly n calls of tick_timers with no FX15 in between bring
\* it to 0 (fewer leave it above 0), where it stays.
C15_Timers ==
    /\ emu.dt \in 0..(U8 - 1)
    /\ emu.st \in 0..(U8 - 1)
    /\ last.call = "tick_timers" =>
           emu = [pre EXCEPT !.dt = IF pre.dt > 0 THEN pre.dt - 1 ELSE 0,
                             !.st = IF pre.st > 0 THEN pre.st - 1 ELSE 0]
    /\ (TickRan /\ SetsDelay(pre)) => emu.dt = pre.v_reg[Digit2(LastOp)]
    /\ delay.calls <= delay.set
    /\ emu.dt = delay.set - delay.calls

\* FX15 set the delay timer to 3, three calls of tick_timers brought it to
\* 0 and one more call left it there, while the sound timer was running
C15_Witness ==
    /\ last.call = "tick_timers"
    /\ delay.set = 3
    /\ delay.calls = 3
    /\ pre.dt = 0
    /\ pre.st > 0
    /\ emu.st = pre.st - 1

----
\* The arithmetic instructions.  X, Y and the values V[X], V[Y] before the
\* instruction the last tick executed.

IsAlu(op, k) == Digit1(op) = 8 /\ Digit4(op) = k
LastX == Digit2(LastOp)
LastY == Digit3(LastOp)
PreVX == pre.v_reg[LastX]
PreVY == pre.v_reg[LastY]

\* C16: for every X and Y, F included, 8XY4 leaves V[F] = 1 if and only if
\* V[X] + V[Y] > 255 before it (else 0), 8XY5 leaves V[F] = 0 if and only if
\* V[Y] > V[X] before it (else 1); for X # F the result register holds
\* (V[X] + V[Y]) mod 256, respectively (V[X] - V[Y]) mod 256.
C16_AddSubFlags ==
    TickRan =>
        /\ IsAlu(LastOp, 4) =>
               /\ emu.v_reg[15] = IF PreVX + PreVY > 255 THEN 1 ELSE 0
               /\ LastX # 15 => emu.v_reg[LastX] = (PreVX + PreVY) % 256
        /\ IsAlu(LastOp, 5) =>
               /\ emu.v_reg[15] = IF PreVY > PreVX THEN 0 ELSE 1
               /\ LastX # 15 => emu.v_reg[LastX] = (PreVX - PreVY) % 256

\* 8FY4 with a carry, the flag register being the result register
C16_Witness ==
    /\ TickRan
    /\ IsAlu(LastOp, 4)
    /\ LastX = 15
    /\ LastY # 15
    /\ PreVX + PreVY > 255
    /\ (PreVX + PreVY) % 256 # 1

\* 8XF5 with a borrow, the flag register being the subtrahend
C16_WitnessSub ==
    /\ TickRan
    /\ IsAlu(LastOp, 5)
    /\ LastX # 15
    /\ LastY = 15
    /\ PreVY > PreVX

\* C17: for every X and Y, F included, after 8XY7 V[F] = 0 if V[X] > V[Y]
\* before it (a borrow) and V[F] = 1 otherwise; for X # F,
\* V[X] = (V[Y] - V[X]) mod 256.
C17_ReverseSub ==
    (TickRan /\ IsAlu(LastOp, 7)) =>
        /\ emu.v_reg[15] = IF PreVX > PreVY THEN 0 ELSE 1
        /\ LastX # 15 => emu.v_reg[LastX] = (PreVY - PreVX) % 256

\* C18: for every X, F included, after 8XYE V[F] is bit 7 of V[X] before
\* it; for X # F, V[X] = (2 * V[X]) mod 256.
C18_ShiftLeft ==
    (TickRan /\ IsAlu(LastOp, 14)) =>
        /\ emu.v_reg[15] = (PreVX \div 128) % 2
        /\ LastX # 15 => emu.v_reg[LastX] = (2 * PreVX) % 256

\* C19: for every X, F included, after 8XY6 V[F] is bit 0 of V[X] before
\* it; for X # F, V[X] = V[X] div 2; V[Y] is not read: the registers after
\* the instruction are a function of V[X] alone, nothing else changes.
C19_ShiftRight ==
    (TickRan /\ IsAlu(LastOp, 6)) =>
        /\ emu.v_reg[15] = PreVX % 2
        /\ LastX # 15 => emu.v_reg[LastX] = PreVX \div 2
        /\ emu = [pre EXCEPT !.pc = pre.pc + 2,
                             !.v_reg = [r \in 0..(NUM_REGS - 1) |->
                                 IF r = 15 THEN PreVX % 2
                                 ELSE IF r = LastX THEN PreVX \div 2
                                 ELSE pre.v_reg[r]]]

\* 8F16 with V[F] = 1 (the low bit set) and V[1] another value
C19_Witness ==
    /\ TickRan
    /\ IsAlu(LastOp, 6)
    /\ LastX = 15
    /\ LastY = 1
    /\ PreVX = 1
    /\ PreVY = 128

----
\* C20: for every value v of V[X] in 0..255 and every index register value
\* I with I + 2 <= 4095, FX33 stores memory[I] = v div 100,
\* memory[I+1] = (v div 10) mod 10, memory[I+2] = v mod 10, so that
\* 100 * memory[I] + 10 * memory[I+1] + memory[I+2] = v, and leaves V[X], the
\* index register and every other memory byte as they were.
C20_Bcd ==
    (TickRan /\ IsBcd(LastOp) /\ pre.i_reg + 2 <= RAM_SIZE - 1) =>
        LET I == pre.i_reg
        IN  /\ Byte(emu.ram, I) = PreVX \div 100
            /\ Byte(emu.ram, I + 1) = (PreVX \div 10) % 10
            /\ Byte(emu.ram, I + 2) = PreVX % 10
            /\ 100 * Byte(emu.ram, I) + 10 * Byte(emu.ram, I + 1)
                   + Byte(emu.ram, I + 2) = PreVX
            /\ \A a \in (DOMAIN emu.ram \cup DOMAIN pre.ram) \ {I, I + 1, I + 2} :
                   Byte(emu.ram, a) = Byte(pre.ram, a)
            /\ emu.v_reg = pre.v_reg
            /\ emu.i_reg = pre.i_reg
            /\ [emu EXCEPT !.ram = pre.ram] = [pre EXCEPT !.pc = pre.pc + 2]

\* V[X] = 157: FX33 stored 1, 5, 7
C20_Witness ==
    /\ TickRan
    /\ IsBcd(LastOp)
    /\ PreVX = 157
    /\ pre.i_reg = 768
    /\ Byte(emu.ram, 768) = 1
    /\ Byte(emu.ram, 769) = 5
    /\ Byte(emu.ram, 770) = 7
    /\ Byte(pre.ram, 770) = 0

----
\* C21: FX29 sets the index register to 5 * V[X]; for every c in 0..15, in a
\* machine whose memory is that of new() or reset() plus a load, after FX29
\* with V[X] = c the five bytes memory[I..I+5) are the five row bytes of
\* glyph c of the font table.
IsFont(op) == Digit1(op) = 15 /\ Digit3(op) = 2 /\ Digit4(op) = 9

FreshMemory(m) ==
    \E data \in FontProgs \cup ReloadProgs : m.ram = load(NewEmu, data).ram

C21_FontAddress ==
    (TickRan /\ IsFont(LastOp)) =>
        /\ emu.i_reg = 5 * PreVX
        /\ (PreVX \in 0..15 /\ FreshMemory(pre)) =>
               \A k \in 0..4 : Byte(emu.ram, emu.i_reg + k) = FONTSET[5 * PreVX + k + 1]

\* V[X] = 0xA: the index register is 50 and the five bytes there are the
\* rows of the glyph A
C21_Witness ==
    /\ TickRan
    /\ IsFont(LastOp)
    /\ PreVX = 10
    /\ FreshMemory(pre)
    /\ emu.i_reg = 50
    /\ << Byte(emu.ram, 50), Byte(emu.ram, 51), Byte(emu.ram, 52), Byte(emu.ram, 53),
          Byte(emu.ram, 54) >> = << 240, 144, 240, 144, 144 >>

----
\* C22: for every register X and all bytes NN1, NN2, 6X NN1 followed by
\* 7X NN2, run for two ticks, leaves V[X] = (NN1 + NN2) mod 256; 7XNN never
\* changes V[F] when X # F (nor any register but V[X]).
IsSetNN(op) == Digit1(op) = 6
IsAddNN(op) == Digit1(op) = 7

C22_SetThenAdd ==
    /\ (TwoTicksRan /\ IsSetNN(PrevOp) /\ IsAddNN(LastOp) /\ Digit2(PrevOp) = LastX) =>
           emu.v_reg[LastX] = (NN(PrevOp) + NN(LastOp)) % 256
    /\ (TickRan /\ IsAddNN(LastOp)) =>
           /\ LastX # 15 => emu.v_reg[15] = pre.v_reg[15]
           /\ \A r \in 0..(NUM_REGS - 1) : r # LastX => emu.v_reg[r] = pre.v_reg[r]

\* 6X NN1, 7X NN2 run from the freshly loaded machine, the sum above 255,
\* with X # F
C22_Witness ==
    /\ TwoTicksRan
    /\ pre2 = load(NewEmu, Halting(InsNN(6, 14, 128) \o InsNN(7, 14, 255)))
    /\ emu.v_reg[14] = 127
    /\ emu.v_reg[15] = 0

\* 7XNN wrapping while V[F] = 1
C22_WitnessFlagSet ==
    /\ TickRan
    /\ IsAddNN(LastOp)
    /\ LastX # 15
    /\ pre.v_reg[15] = 1
    /\ PreVX + NN(LastOp) > 255

----
\* C23: each tick executes exactly one instruction, the opcode
\* memory[pc] * 256 + memory[pc + 1] read at the program counter before the
\* tick; after the tick the program counter is 2 above its value before for
\* every instruction but the jumps, calls and returns (1NNN, 2NNN, BNNN,
\* 00EE), the skips whose condition holds (3XNN, 4XNN, 5XY0, 9XY0, EX9E,
\* EXA1: 4 above) and FX0A with no key pressed (unchanged).  Stated of the
\* ticks that return, on the opcodes of the instruction table.
OpAt(m) == Byte(m.ram, m.pc) * 256 + Byte(m.ram, m.pc + 1)

IsTransfer(op) == Digit1(op) \in {1, 2, 11} \/ op = 238

SkipHolds(m, op) ==
    LET vx == m.v_reg[Digit2(op)]
        vy == m.v_reg[Digit3(op)]
    IN  \/ Digit1(op) = 3 /\ vx = NN(op)
        \/ Digit1(op) = 4 /\ vx # NN(op)
        \/ Digit1(op) = 5 /\ Digit4(op) = 0 /\ vx = vy
        \/ Digit1(op) = 9 /\ Digit4(op) = 0 /\ vx # vy
        \/ Digit1(op) = 14 /\ NN(op) = 158 /\ vx < NUM_KEYS /\ m.keys[vx]
        \/ Digit1(op) = 14 /\ NN(op) = 161 /\ vx < NUM_KEYS /\ ~m.keys[vx]

C23_OneInstruction ==
    (TickRan /\ InTable(OpAt(pre)) /\ ~Panicked(emu)) =>
        /\ LastOp = OpAt(pre)
        /\ \E rng \in RandBytes, oc \in BOOLEAN :
               emu = execute([pre EXCEPT !.pc = pre.pc + 2], OpAt(pre), rng, oc)
        /\ ~IsTransfer(OpAt(pre)) =>
               emu.pc = IF SkipHolds(pre, OpAt(pre)) THEN pre.pc + 4
                        ELSE IF IsWaitKey(OpAt(pre)) /\ PressedKeys(pre) = {} THEN pre.pc
                        ELSE pre.pc + 2

\* a tick executed EX9E with the key V[X] pressed: the program counter is
\* 4 above
C23_Witness ==
    /\ TickRan
    /\ OpAt(pre) = 57502
    /\ SkipHolds(pre, OpAt(pre))
    /\ emu.pc = pre.pc + 4
    /\ ~Panicked(emu)

\* a tick executed a skip whose condition does not hold
C23_WitnessNoSkip ==
    /\ TickRan
    /\ Digit1(OpAt(pre)) \in {3, 4, 5, 9, 14}
    /\ InTable(OpAt(pre))
    /\ ~SkipHolds(pre, OpAt(pre))
    /\ emu.pc = pre.pc + 2
    /\ ~Panicked(emu)

----
\* C24: along any execution from new() in which no stack fault occurs, the
\* stack pointer is the number of 2NNN executed less the number of 00EE
\* executed and stays in 0..16, the stack slots below the stack pointer hold
\* the return addresses of the calls still open, in call order, and each
\* 00EE returns to the address following the most recent 2NNN not yet
\* returned from, for up to 16 nested calls.
StackFault ==
    /\ Panicked(emu)
    /\ TickRan
    /\ IsCall(LastOp) \/ IsRet(LastOp)

C24_CallStack ==
    ~StackFault =>
        /\ emu.sp = Len(calls.open)
        /\ emu.sp \in 0..STACK_SIZE
        /\ \A k \in 1..Len(calls.open) : emu.stack[k - 1] = calls.open[k]
        /\ (TickRan /\ IsRet(LastOp) /\ ~Panicked(emu)) =>
               /\ emu.pc = calls.returned
               /\ emu.sp = pre.sp - 1
        /\ (TickRan /\ IsCall(LastOp) /\ ~Panicked(emu)) =>
               /\ emu.sp = pre.sp + 1
               /\ emu.stack[pre.sp] = pre.pc + 2

\* the return from the sixteenth nested call
C24_Witness ==
    /\ TickRan
    /\ IsRet(LastOp)
    /\ pre.sp = STACK_SIZE
    /\ emu.sp = STACK_SIZE - 1
    /\ emu.pc = calls.returned
    /\ ~Panicked(emu)

\* three calls open, made from three places, and the return from the
\* innermost
C24_WitnessPlaces ==
    /\ TickRan
    /\ IsRet(LastOp)
    /\ pre.sp = 3
    /\ << pre.stack[0], pre.stack[1], pre.stack[2] >> = << 514, 520, 524 >>
    /\ emu.pc = 524
    /\ calls.open = << 514, 520 >>

----
\* C25: for every machine state whose next instruction is not FX07, FX15 or
\* FX18, tick then tick_timers yields the same machine state as tick_timers
\* then tick; tick itself never decrements a timer, and the only
\* instructions that change a timer are FX15 (delay) and FX18 (sound).
\* Stated in the states a tick has just produced, of the machine `pre` it
\* ran on, for the ticks that return.
IsGetDelay(op) == Digit1(op) = 15 /\ NN(op) = 7
IsSetDelay(op) == Digit1(op) = 15 /\ NN(op) = 21
IsSetSound(op) == Digit1(op) = 15 /\ NN(op) = 24

C25_Interleaving ==
    last.call = "tick" =>
        /\ emu.dt # pre.dt => (TickRan /\ IsSetDelay(LastOp))
        /\ emu.st # pre.st => (TickRan /\ IsSetSound(LastOp))
        /\ ( /\ TickRan
             /\ ~Panicked(emu)
             /\ ~(IsGetDelay(LastOp) \/ IsSetDelay(LastOp) \/ IsSetSound(LastOp)) ) =>
               \A rng \in RandBytes, oc \in BOOLEAN :
                   emu = tick(pre, rng, oc) =>
                       tick_timers(emu) = tick(tick_timers(pre), rng, oc)

\* a tick executed an instruction that changes the machine while both
\* timers were running
C25_Witness ==
    /\ TickRan
    /\ ~(IsGetDelay(LastOp) \/ IsSetDelay(LastOp) \/ IsSetSound(LastOp))
    /\ ~Panicked(emu)
    /\ pre.dt > 1
    /\ pre.st > 0
    /\ emu.v_reg # pre.v_reg
    /\ tick_timers(emu) # emu
    /\ \E rng \in RandBytes, oc \in BOOLEAN :
           tick_timers(emu) = tick(tick_timers(pre), rng, oc)

----
\* C26: for every X and every index register value I with I + X <= 4095,
\* FX55 writes memory[I + k] = V[k] for k in 0..X and FX65 writes
\* V[k] = memory[I + k] for k in 0..X; neither changes the index register,
\* the registers above X or the memory outside [I, I + X]; hence FX55
\* followed, after changes to V[0..X] that touch neither I nor the memory,
\* by FX65 with the same X restores V[0..X] to their values at the FX55.
C26_StoreLoad ==
    /\ (TickRan /\ IsStore(LastOp) /\ pre.i_reg + LastX <= RAM_SIZE - 1) =>
           /\ ~Panicked(emu)
           /\ \A k \in 0..LastX : Byte(emu.ram, pre.i_reg + k) = pre.v_reg[k]
           /\ \A a \in (DOMAIN emu.ram \cup DOMAIN pre.ram)
                           \ (pre.i_reg..(pre.i_reg + LastX)) :
                  Byte(emu.ram, a) = Byte(pre.ram, a)
           /\ [emu EXCEPT !.ram = pre.ram] = [pre EXCEPT !.pc = pre.pc + 2]
    /\ (TickRan /\ IsLoad(LastOp) /\ pre.i_reg + LastX <= RAM_SIZE - 1) =>
           /\ ~Panicked(emu)
           /\ \A k \in 0..LastX : emu.v_reg[k] = Byte(pre.ram, pre.i_reg + k)
           /\ \A r \in (LastX + 1)..(NUM_REGS - 1) : emu.v_reg[r] = pre.v_reg[r]
           /\ [emu EXCEPT !.v_reg = pre.v_reg] = [pre EXCEPT !.pc = pre.pc + 2]
    /\ (TickRan /\ IsLoad(LastOp) /\ saved.ok /\ LastX = saved.x) =>
           /\ ~Panicked(emu)
           /\ \A k \in 0..LastX : emu.v_reg[k] = saved.v[k]

\* FF55 then FF65 at the top of the memory (I + X = 4095), V[0], V[1] and
\* V[F] changed in between and restored
C26_Witness ==
    /\ TickRan
    /\ IsLoad(LastOp)
    /\ saved.ok
    /\ LastX = 15
    /\ saved.x = 15
    /\ pre.i_reg + LastX = RAM_SIZE - 1
    /\ pre.v_reg[0] # saved.v[0]
    /\ pre.v_reg[1] # saved.v[1]
    /\ pre.v_reg[15] # saved.v[15]
    /\ emu.v_reg = saved.v

====
